---- MODULE Spec2Model ----
(***************************************************************************)
(* Prediction verification and scoring pipeline of the finfluencer         *)
(* tracker: accuracy_scorer.py, market_data.py and the verification part   *)
(* of database.py.                                                         *)
(*                                                                         *)
(* Numbers.  Scores are Python floats in the source.  They are modelled as *)
(* exact rationals [n, d] in lowest terms, so "equals" below means equality*)
(* of the real numbers the float expressions denote; binary rounding error *)
(* of the order of 1e-16 is outside the model.  Prices are whole numbers.  *)
(*                                                                         *)
(* Text.  A target or a timeframe is a string; stripping, searching and    *)
(* parsing are computed on its characters as the source's regular          *)
(* expressions compute them.  A target of None and a target of '' are both *)
(* the empty string: every use of the target in the source is a truthiness *)
(* test, which cannot tell them apart.                                     *)
(***************************************************************************)
EXTENDS Integers, Sequences, FiniteSets, TLC

VARIABLES
    env,            \* process configuration: GEMINI_API_KEY / EXA_API_KEY set or not
    now,            \* the date of datetime.now(), as a day number
    predictions,    \* table predictions (joined with its video's publish_date)
    verifications,  \* table verifications: a set of rows
    verSeq,         \* AUTOINCREMENT sequence of table verifications
    creators,       \* table creators: total_predictions / accuracy_score
    pc,             \* where the running command (if any) stands
    job,            \* local variables of the running command
    call,           \* the last verify_prediction call: inputs, provider calls, result
    base,           \* the last calculate_base_score call: arguments and result
    parse,          \* the last parse_timeframe call: arguments and result
    market          \* the last direct get_market_outcome call: arguments and result

vars == <<env, now, predictions, verifications, verSeq, creators, pc, job, call, base,
          parse, market>>

----------------------------------------------------------------------------
(* Rational arithmetic *)

Abs(x) == IF x < 0 THEN -x ELSE x

RECURSIVE GCD(_, _)
GCD(a, b) == IF b = 0 THEN a ELSE GCD(b, a % b)

R(n, d) ==
    LET g == GCD(Abs(n), d)
    IN  [n |-> n \div g, d |-> d \div g]

Zero == R(0, 1)
One  == R(1, 1)
Half == R(1, 2)

RAdd(a, b) == R(a.n * b.d + b.n * a.d, a.d * b.d)
RMul(a, b) == R(a.n * b.n, a.d * b.d)
RLe(a, b)  == a.n * b.d <= b.n * a.d
RLt(a, b)  == a.n * b.d <  b.n * a.d
RMin(a, b) == IF RLe(a, b) THEN a ELSE b
InUnit(a)  == RLe(Zero, a) /\ RLe(a, One)

\* Variant of Round3 for the sensitivity test of C8: no rounding
NotRounded(x) == x

\* round(x, 3): to the nearest thousandth, ties to the even thousandth
Round3(x) ==
    LET q  == (x.n * 1000) \div x.d
        r2 == 2 * ((x.n * 1000) % x.d)
        up == r2 > x.d \/ (r2 = x.d /\ q % 2 = 1)
    IN  R(IF up THEN q + 1 ELSE q, 1000)

----------------------------------------------------------------------------
(* Text *)

Ch(s, i) == SubSeq(s, i, i)

Digits == {"0", "1", "2", "3", "4", "5", "6", "7", "8", "9"}

DigitVal(c) ==
    CASE c = "0" -> 0 [] c = "1" -> 1 [] c = "2" -> 2 [] c = "3" -> 3
      [] c = "4" -> 4 [] c = "5" -> 5 [] c = "6" -> 6 [] c = "7" -> 7
      [] c = "8" -> 8 [] c = "9" -> 9

AllDigits(s) == \A i \in 1..Len(s) : Ch(s, i) \in Digits

\* int(s) of a text of digits
RECURSIVE IntOf(_)
IntOf(s) ==
    IF s = "" THEN 0
    ELSE 10 * IntOf(SubSeq(s, 1, Len(s) - 1)) + DigitVal(Ch(s, Len(s)))

RECURSIVE Pow10(_)
Pow10(k) == IF k = 0 THEN 1 ELSE 10 * Pow10(k - 1)

\* re.sub(r'[^\d.]', '', str(target))
RECURSIVE StripTarget(_)
StripTarget(t) ==
    IF t = "" THEN ""
    ELSE LET c    == Ch(t, 1)
             rest == StripTarget(SubSeq(t, 2, Len(t)))
         IN  IF c \in Digits \/ c = "." THEN c \o rest ELSE rest

\* float(s) of a text of digits and points: [ok, val]; ok = FALSE is ValueError
ParseFloat(s) ==
    LET dots == {i \in 1..Len(s) : Ch(s, i) = "."}
    IN  IF Cardinality(dots) > 1 \/ Len(s) = Cardinality(dots)
        THEN [ok |-> FALSE, val |-> Zero]
        ELSE IF dots = {} THEN [ok |-> TRUE, val |-> R(IntOf(s), 1)]
        ELSE LET p == CHOOSE i \in dots : TRUE
             IN  [ok |-> TRUE,
                  val |-> R(IntOf(SubSeq(s, 1, p - 1) \o SubSeq(s, p + 1, Len(s))),
                            Pow10(Len(s) - p))]

\* float(re.sub(r'[^\d.]', '', str(target)))
TargetPrice(t) == ParseFloat(StripTarget(t))

LC == "abcdefghijklmnopqrstuvwxyz"
UC == "ABCDEFGHIJKLMNOPQRSTUVWXYZ"
LowerLetters == {Ch(LC, i) : i \in 1..Len(LC)}
UpperLetters == {Ch(UC, i) : i \in 1..Len(UC)}

IsSpace(c) == c \in {" ", "\t", "\n", "\r", "\f"}              \* \s
WordChars == Digits \cup LowerLetters \cup UpperLetters \cup {"_"}
IsWord(c)  == c \in WordChars                               \* \w

LowerCh(c) ==
    IF c \in UpperLetters
    THEN Ch(LC, CHOOSE i \in 1..Len(UC) : Ch(UC, i) = c)
    ELSE c

\* str.lower()
RECURSIVE Lower(_)
Lower(s) == IF s = "" THEN "" ELSE LowerCh(Ch(s, 1)) \o Lower(SubSeq(s, 2, Len(s)))

\* str.strip()
RECURSIVE Strip(_)
Strip(s) ==
    IF s = "" THEN ""
    ELSE IF IsSpace(Ch(s, 1)) THEN Strip(SubSeq(s, 2, Len(s)))
    ELSE IF IsSpace(Ch(s, Len(s))) THEN Strip(SubSeq(s, 1, Len(s) - 1))
    ELSE s

StartsAt(s, i, w) == i >= 1 /\ i + Len(w) - 1 <= Len(s) /\ SubSeq(s, i, i + Len(w) - 1) = w

\* w in s
Contains(s, w) == \E i \in 1..Len(s) : StartsAt(s, i, w)

\* the last index of the run of word characters / spaces / digits that starts
\* at j (j - 1 when the run is empty)
RECURSIVE WordRunEnd(_, _)
WordRunEnd(s, j) ==
    IF j <= Len(s) /\ IsWord(Ch(s, j)) THEN WordRunEnd(s, j + 1) ELSE j - 1

RECURSIVE SpaceRunEnd(_, _)
SpaceRunEnd(s, j) ==
    IF j <= Len(s) /\ IsSpace(Ch(s, j)) THEN SpaceRunEnd(s, j + 1) ELSE j - 1

RECURSIVE DigitRunEnd(_, _)
DigitRunEnd(s, j) ==
    IF j <= Len(s) /\ Ch(s, j) \in Digits THEN DigitRunEnd(s, j + 1) ELSE j - 1

Min(S) == CHOOSE x \in S : \A y \in S : x <= y
Max(S) == CHOOSE x \in S : \A y \in S : x >= y

\* str(n) of a natural number
RECURSIVE IntToText(_)
IntToText(n) ==
    IF n < 10 THEN Ch("0123456789", n + 1)
    ELSE IntToText(n \div 10) \o Ch("0123456789", (n % 10) + 1)

Pad2(n) == IF n < 10 THEN "0" \o IntToText(n) ELSE IntToText(n)

----------------------------------------------------------------------------
(* datetime: a date is its proleptic Gregorian ordinal (0001-01-01 is 1) *)

IsLeap(y) == y % 4 = 0 /\ (y % 100 # 0 \/ y % 400 = 0)

DaysInMonth(y, m) ==
    IF m = 2 THEN (IF IsLeap(y) THEN 29 ELSE 28)
    ELSE IF m \in {4, 6, 9, 11} THEN 30 ELSE 31

DaysBeforeYear(y) ==
    (y - 1) * 365 + (y - 1) \div 4 - (y - 1) \div 100 + (y - 1) \div 400

RECURSIVE DaysBeforeMonth(_, _)
DaysBeforeMonth(y, m) ==
    IF m = 1 THEN 0 ELSE DaysBeforeMonth(y, m - 1) + DaysInMonth(y, m - 1)

\* datetime(y, m, d): ok = FALSE is ValueError
MkDate(y, m, d) ==
    IF y < 1 \/ y > 9999 \/ m < 1 \/ m > 12 \/ d < 1 \/ d > DaysInMonth(y, m)
    THEN [ok |-> FALSE, ord |-> 0]
    ELSE [ok |-> TRUE, ord |-> DaysBeforeYear(y) + DaysBeforeMonth(y, m) + d]

MaxOrd == DaysBeforeYear(10000)    \* date.max, 9999-12-31

\* date + timedelta(days=n): ok = FALSE is OverflowError
AddDays(ord, n) ==
    IF ord + n < 1 \/ ord + n > MaxOrd
    THEN [ok |-> FALSE, ord |-> 0]
    ELSE [ok |-> TRUE, ord |-> ord + n]

RECURSIVE YearFrom(_, _)
YearFrom(ord, y) == IF DaysBeforeYear(y + 1) < ord THEN YearFrom(ord, y + 1) ELSE y

YearOf(ord)  == YearFrom(ord, (ord - 1) \div 366 + 1)
MonthOf(ord) ==
    LET y == YearOf(ord)
        n == ord - DaysBeforeYear(y)
    IN  CHOOSE m \in 1..12 :
            DaysBeforeMonth(y, m) < n /\ n <= DaysBeforeMonth(y, m) + DaysInMonth(y, m)
DayOf(ord) == ord - DaysBeforeYear(YearOf(ord)) - DaysBeforeMonth(YearOf(ord), MonthOf(ord))

\* d.strftime("%Y-%m-%d"); the C library's %Y does not pad a year below 1000
Strftime(ord) ==
    IntToText(YearOf(ord)) \o "-" \o Pad2(MonthOf(ord)) \o "-" \o Pad2(DayOf(ord))

\* datetime.strptime(s, "%Y-%m-%d"): ok = FALSE is ValueError.  %Y is four
\* digits; the texts of the model write month and day with two digits.
Strptime(s) ==
    IF Len(s) = 10 /\ Ch(s, 5) = "-" /\ Ch(s, 8) = "-"
       /\ AllDigits(SubSeq(s, 1, 4)) /\ AllDigits(SubSeq(s, 6, 7))
       /\ AllDigits(SubSeq(s, 9, 10))
    THEN MkDate(IntOf(SubSeq(s, 1, 4)), IntOf(SubSeq(s, 6, 7)), IntOf(SubSeq(s, 9, 10)))
    ELSE [ok |-> FALSE, ord |-> 0]

----------------------------------------------------------------------------
(* market_data.parse_timeframe *)

MonthAbbrs ==
    <<"jan", "feb", "mar", "apr", "may", "jun",
      "jul", "aug", "sep", "oct", "nov", "dec">>

MonthAt(s, i) ==
    IF \E m \in 1..12 : StartsAt(s, i, MonthAbbrs[m])
    THEN CHOOSE m \in 1..12 : StartsAt(s, i, MonthAbbrs[m])
    ELSE 0

\* (jan|...|dec)\w*\s*(\d{4}) tried at position i with \w* ending at e: the
\* index of the first of the four digits, 0 when this attempt fails
MonthYearDigits(s, e) ==
    LET k == SpaceRunEnd(s, e + 1)
    IN  IF k + 4 <= Len(s) /\ AllDigits(SubSeq(s, k + 1, k + 4)) THEN k + 1 ELSE 0

\* the ends e of \w* with which the pattern matches at i
MonthYearEnds(s, i) ==
    IF MonthAt(s, i) = 0 THEN {}
    ELSE {e \in (i + 2)..WordRunEnd(s, i + 3) : MonthYearDigits(s, e) # 0}

\* the match that starts at i: its month and its year
MonthYearMatch(s, i, y) ==
    [found |-> TRUE, month |-> MonthAt(s, i), year |-> IntOf(SubSeq(s, y, y + 3))]

MonthYearFirst(s, starts) ==
    IF starts = {} THEN [found |-> FALSE, month |-> 0, year |-> 0]
    ELSE MonthYearMatch(s, Min(starts), MonthYearDigits(s, Max(MonthYearEnds(s, Min(starts)))))

\* re.search(month_year_pattern, s): leftmost start, \w* greedy
MonthYearSearch(s) == MonthYearFirst(s, {i \in 1..Len(s) : MonthYearEnds(s, i) # {}})

\* \b(20[2-3]\d)\b at position i
YearAt(s, i) ==
    /\ i + 3 <= Len(s)
    /\ SubSeq(s, i, i + 1) = "20"
    /\ Ch(s, i + 2) \in {"2", "3"}
    /\ Ch(s, i + 3) \in Digits
    /\ (i = 1 \/ ~IsWord(Ch(s, i - 1)))
    /\ (i + 3 = Len(s) \/ ~IsWord(Ch(s, i + 4)))

YearFirst(s, starts) ==
    IF starts = {} THEN [found |-> FALSE, year |-> 0]
    ELSE [found |-> TRUE, year |-> IntOf(SubSeq(s, Min(starts), Min(starts) + 3))]

\* re.search(year_pattern, s)
YearSearch(s) == YearFirst(s, {i \in 1..Len(s) : YearAt(s, i)})

CountFirst(s, starts, dflt) ==
    IF starts = {} THEN dflt
    ELSE IntOf(SubSeq(s, Min(starts), DigitRunEnd(s, Min(starts))))

\* re.search(r'(\d+)\s*<unit>', s): the number, or dflt when there is no match
CountBefore(s, unit, dflt) ==
    CountFirst(s, {i \in 1..Len(s) :
                     /\ Ch(s, i) \in Digits
                     /\ StartsAt(s, SpaceRunEnd(s, DigitRunEnd(s, i) + 1) + 1, unit)},
               dflt)

Window(start, end) ==
    IF start.ok /\ end.ok
    THEN [ok |-> TRUE, start_date |-> Strftime(start.ord), end_date |-> Strftime(end.ord)]
    ELSE [ok |-> FALSE, start_date |-> "", end_date |-> ""]

\* the last day of the month before the first day nxt of the next month
DayBefore(nxt) == IF nxt.ok THEN AddDays(nxt.ord, -1) ELSE nxt

\* lines 272-287
MonthWindow(year, month) ==
    Window(MkDate(year, month, 1),
           DayBefore(IF month = 12 THEN MkDate(year + 1, 1, 1)
                     ELSE MkDate(year, month + 1, 1)))

\* Variant of OtherWindow for the sensitivity test of C15: the years phrase
\* is tried before the months phrase
OtherWindowYearsFirst(tf, ref, yr) ==
    IF yr.found /\ Contains(tf, "end")
    THEN Window(MkDate(yr.year, 10, 1), MkDate(yr.year, 12, 31))
    ELSE IF yr.found
    THEN Window(MkDate(yr.year, 1, 1), MkDate(yr.year, 12, 31))
    ELSE IF Contains(tf, "year")
    THEN Window(ref, AddDays(ref.ord, CountBefore(tf, "year", 1) * 365))
    ELSE IF Contains(tf, "month")
    THEN Window(ref, AddDays(ref.ord, CountBefore(tf, "month", 6) * 30))
    ELSE Window(ref, AddDays(ref.ord, 180))

\* lines 289-321, ref being the parsed reference date
OtherWindow(tf, ref, yr) ==
    IF yr.found /\ Contains(tf, "end")
    THEN Window(MkDate(yr.year, 10, 1), MkDate(yr.year, 12, 31))
    ELSE IF yr.found
    THEN Window(MkDate(yr.year, 1, 1), MkDate(yr.year, 12, 31))
    ELSE IF Contains(tf, "month")
    THEN Window(ref, AddDays(ref.ord, CountBefore(tf, "month", 6) * 30))
    ELSE IF Contains(tf, "year")
    THEN Window(ref, AddDays(ref.ord, CountBefore(tf, "year", 1) * 365))
    ELSE Window(ref, AddDays(ref.ord, 180))

ParsedTimeframe(tf, ref, my) ==
    IF ~ref.ok THEN Window(ref, ref)
    ELSE IF my.found THEN MonthWindow(my.year, my.month)
    ELSE OtherWindow(tf, ref, YearSearch(tf))

LowerStripped(tf, ref) == ParsedTimeframe(tf, ref, MonthYearSearch(tf))

\* [ok, start_date, end_date]; ok = FALSE is an exception raised to the caller
parse_timeframe(timeframe, reference_date) ==
    LowerStripped(Strip(Lower(timeframe)), Strptime(reference_date))

----------------------------------------------------------------------------
(* config.py *)

SCORING_WEIGHTS ==
    [direction |-> R(40, 100), target |-> R(40, 100), timing |-> R(20, 100)]

----------------------------------------------------------------------------
(* accuracy_scorer.calculate_base_score *)

Absent == -1    \* a price key the dict does not hold

Weighted(d, t, ti) ==
    RAdd(RAdd(RMul(d, SCORING_WEIGHTS.direction),
              RMul(t, SCORING_WEIGHTS.target)),
         RMul(ti, SCORING_WEIGHTS.timing))

\* Variant of DirectionScore for the sensitivity test of C10: partial credit
\* for every wrong direction in a flat market
DirectionScoreAnyFlat(direction, actual_direction) ==
    IF direction = actual_direction THEN One
    ELSE IF actual_direction = "neutral" THEN R(3, 10)
         ELSE Zero

\* lines 93-102
DirectionScore(direction, actual_direction) ==
    IF direction = actual_direction THEN One
    ELSE IF direction \in {"bullish", "bearish"} /\ actual_direction = "neutral"
         THEN R(3, 10)
         ELSE Zero

\* Variant of Closeness for the sensitivity test of C1: no min(..., 1.0)
ClosenessUncapped(direction, tp, high_price, low_price) ==
    IF direction = "bullish" /\ high_price # 0
    THEN IF tp.n = 0 THEN Half
         ELSE RMul(R(high_price * tp.d, tp.n), R(7, 10))
    ELSE IF direction = "bearish"
    THEN IF low_price # 0
         THEN RMul(R(tp.n, tp.d * low_price), R(7, 10))
         ELSE Zero
    ELSE Zero

\* Variant of Closeness for the sensitivity test of C11: a missed target can
\* earn the full score
ClosenessFull(direction, tp, high_price, low_price) ==
    IF direction = "bullish" /\ high_price # 0
    THEN IF tp.n = 0 THEN Half
         ELSE RMin(R(high_price * tp.d, tp.n), One)
    ELSE IF direction = "bearish"
    THEN IF low_price # 0
         THEN RMin(R(tp.n, tp.d * low_price), One)
         ELSE Zero
    ELSE Zero

\* lines 116-122, tp the parsed target
Closeness(direction, tp, high_price, low_price) ==
    IF direction = "bullish" /\ high_price # 0
    THEN IF tp.n = 0 THEN Half                     \* ZeroDivisionError
         ELSE RMul(RMin(R(high_price * tp.d, tp.n), One), R(7, 10))
    ELSE IF direction = "bearish"
    THEN IF low_price # 0
         THEN RMul(RMin(R(tp.n, tp.d * low_price), One), R(7, 10))
         ELSE Zero
    ELSE Zero

\* dict.get(key, default)
Get(value, default) == IF value = Absent THEN default ELSE value

Missed(mo, direction, tp) ==
    IF ~tp.ok THEN Half                            \* float() raised
    ELSE Closeness(direction, tp.val, Get(mo.period_high, 0),
                   Get(mo.period_low, Get(mo.end_price, 0)))

\* lines 110-124: the target was given and missed
MissedTargetScore(mo, direction, target) == Missed(mo, direction, TargetPrice(target))

\* lines 104-127
TargetScore(mo, direction, target) ==
    IF target # "" /\ mo.target_reached # "null"
    THEN IF mo.target_reached = "true" THEN One
         ELSE MissedTargetScore(mo, direction, target)
    ELSE IF target = "" THEN Half
    ELSE Zero

\* lines 129-140
Scores(correct, d, t, ti) ==
    [direction_correct |-> correct,
     direction_score |-> d, target_score |-> t, timing_score |-> ti,
     overall_score |-> Weighted(d, t, ti)]

Verified(mo, direction, target, actual) ==
    Scores(direction = actual, DirectionScore(direction, actual),
           TargetScore(mo, direction, target), R(8, 10))

\* Variant of calculate_base_score for the sensitivity test of C2: no test of
\* the outcome's status
ScoreWhateverOutcome(mo, direction, target) ==
    Verified(mo, direction, target,
             IF mo.actual_direction = "absent" THEN "neutral"
             ELSE mo.actual_direction)

calculate_base_score(mo, direction, target) ==
    IF mo.outcome # "verified"
    THEN [direction_correct |-> FALSE, direction_score |-> Zero,
          target_score |-> Zero, timing_score |-> Zero, overall_score |-> Zero]
    ELSE Verified(mo, direction, target,
                  IF mo.actual_direction = "absent" THEN "neutral"
                  ELSE mo.actual_direction)

----------------------------------------------------------------------------
(* market_data.get_price_range *)

\* The market-data provider (get_nifty_data / get_stock_data) answers with
\* the closing prices of the window in the order of their date keys; None and
\* the empty answer are both <<>> (the caller tests "not data").  A close of
\* 0 is a falsy close.
SeqMax(q) == Max({q[i] : i \in 1..Len(q)})
SeqMin(q) == Min({q[i] : i \in 1..Len(q)})

get_price_range(data) ==
    LET prices == SelectSeq(data, LAMBDA c : c # 0)
    IN  IF data = <<>>
        THEN [found |-> FALSE, start_price |-> 0, end_price |-> 0, high |-> 0, low |-> 0]
        ELSE [found |-> TRUE,
              start_price |-> data[1],
              end_price   |-> data[Len(data)],
              high |-> IF prices = <<>> THEN 0 ELSE SeqMax(prices),
              low  |-> IF prices = <<>> THEN 0 ELSE SeqMin(prices)]

----------------------------------------------------------------------------
(* market_data.get_market_outcome *)

\* lines 344-354: the result before anything is known
EmptyOutcome ==
    [outcome |-> "missing", actual_direction |-> "null", target_reached |-> "null",
     start_price |-> Absent, end_price |-> Absent,
     period_high |-> Absent, period_low |-> Absent,
     data_source |-> "unknown", error |-> FALSE]

\* Variant of ActualDirection for the sensitivity test of C17: a change of
\* exactly 5% counts as a move
ActualDirectionInclusive(start_price, end_price) ==
    IF (end_price - start_price) * 100 >= 5 * start_price THEN "bullish"
    ELSE IF (end_price - start_price) * 100 <= (-5) * start_price THEN "bearish"
    ELSE "neutral"

\* lines 380-386; change_pct = (end - start) / start * 100
ActualDirection(start_price, end_price) ==
    IF (end_price - start_price) * 100 > 5 * start_price THEN "bullish"
    ELSE IF (end_price - start_price) * 100 < (-5) * start_price THEN "bearish"
    ELSE "neutral"

\* Variant of Reached for the sensitivity test of C18: the target has to be
\* passed, touching it is not enough
ReachedStrict(direction, tp, high, low) ==
    IF ~tp.ok THEN "null"
    ELSE IF direction = "bullish"
    THEN (IF RLt(tp.val, R(high, 1)) THEN "true" ELSE "false")
    ELSE (IF RLt(R(low, 1), tp.val) THEN "true" ELSE "false")

\* lines 388-397
Reached(direction, tp, high, low) ==
    IF ~tp.ok THEN "null"
    ELSE IF direction = "bullish"
    THEN (IF RLe(tp.val, R(high, 1)) THEN "true" ELSE "false")
    ELSE (IF RLe(R(low, 1), tp.val) THEN "true" ELSE "false")

TargetReached(direction, target, high, low) ==
    IF target = "" THEN "null" ELSE Reached(direction, TargetPrice(target), high, low)

\* The timeframes and the date texts of the model, and parse_timeframe
\* tabulated over them (each window is computed once).  The end date is kept
\* with datetime.strptime(end_date, "%Y-%m-%d") applied to it, line 360.
Timeframes == {"Dec 2023", "6 months", "by 2030", ""}
DateTexts  == {"2023-06-01", "2024-01-05", "2024-10-30", "2024-11-01", ""}

WithEnd(w) ==
    [ok |-> w.ok, start_date |-> w.start_date, end_date |-> w.end_date,
     end |-> Strptime(w.end_date)]

Windows ==
    [x \in Timeframes \X DateTexts |-> WithEnd(parse_timeframe(x[1], x[2]))] @@ <<>>

ResolveWindow(timeframe, reference_date) == Windows[<<timeframe, reference_date>>]

\* Variant of Resolved for the sensitivity test of C5: pending up to and on
\* the end date
ResolvedFromEndDate(direction, target, w, today, pd) ==
    IF ~w.ok \/ ~w.end.ok
    THEN [mo |-> [EmptyOutcome EXCEPT !.outcome = "error", !.error = TRUE],
          fetched |-> FALSE]
    ELSE IF w.end.ord >= today
    THEN [mo |-> [EmptyOutcome EXCEPT !.outcome = "pending"], fetched |-> FALSE]
    ELSE IF pd.found /\ pd.start_price # 0 /\ pd.end_price # 0
    THEN [mo |-> [outcome |-> "verified",
                  actual_direction |-> ActualDirection(pd.start_price, pd.end_price),
                  target_reached |-> TargetReached(direction, target, pd.high, pd.low),
                  start_price |-> pd.start_price, end_price |-> pd.end_price,
                  period_high |-> pd.high, period_low |-> pd.low,
                  data_source |-> "nselib", error |-> FALSE],
          fetched |-> TRUE]
    ELSE [mo |-> [EmptyOutcome EXCEPT !.outcome = "no_data"], fetched |-> TRUE]

\* Variant of Resolved for the sensitivity test of C19: a failure to resolve
\* the window reported as missing data
ResolvedErrorAsNoData(direction, target, w, today, pd) ==
    IF ~w.ok \/ ~w.end.ok
    THEN [mo |-> [EmptyOutcome EXCEPT !.outcome = "no_data"], fetched |-> FALSE]
    ELSE IF w.end.ord > today
    THEN [mo |-> [EmptyOutcome EXCEPT !.outcome = "pending"], fetched |-> FALSE]
    ELSE IF pd.found /\ pd.start_price # 0 /\ pd.end_price # 0
    THEN [mo |-> [outcome |-> "verified",
                  actual_direction |-> ActualDirection(pd.start_price, pd.end_price),
                  target_reached |-> TargetReached(direction, target, pd.high, pd.low),
                  start_price |-> pd.start_price, end_price |-> pd.end_price,
                  period_high |-> pd.high, period_low |-> pd.low,
                  data_source |-> "nselib", error |-> FALSE],
          fetched |-> TRUE]
    ELSE [mo |-> [EmptyOutcome EXCEPT !.outcome = "no_data"], fetched |-> TRUE]

\* today is the date of datetime.now().  The end date is a midnight and the
\* comparison is strict, so the time of day of now() cannot change it.
\* [mo, fetched]: the outcome dict, and whether the provider was asked.
Resolved(direction, target, w, today, pd) ==
    IF ~w.ok \/ ~w.end.ok
    THEN [mo |-> [EmptyOutcome EXCEPT !.outcome = "error", !.error = TRUE],
          fetched |-> FALSE]
    ELSE IF w.end.ord > today
    THEN [mo |-> [EmptyOutcome EXCEPT !.outcome = "pending"], fetched |-> FALSE]
    ELSE IF pd.found /\ pd.start_price # 0 /\ pd.end_price # 0
    THEN [mo |-> [outcome |-> "verified",
                  actual_direction |-> ActualDirection(pd.start_price, pd.end_price),
                  target_reached |-> TargetReached(direction, target, pd.high, pd.low),
                  start_price |-> pd.start_price, end_price |-> pd.end_price,
                  period_high |-> pd.high, period_low |-> pd.low,
                  data_source |-> "nselib", error |-> FALSE],
          fetched |-> TRUE]
    ELSE [mo |-> [EmptyOutcome EXCEPT !.outcome = "no_data"], fetched |-> TRUE]

get_market_outcome(direction, target, timeframe, prediction_date, today, data) ==
    Resolved(direction, target, ResolveWindow(timeframe, prediction_date), today,
             get_price_range(data))

----------------------------------------------------------------------------
(* accuracy_scorer.verify_with_gemini *)

\* A JSON value of the model's answer: [t, v], t the JSON type ("missing" for
\* an absent key) and v the number (for a bool, 1 or 0).
JNum(r)  == [t |-> "num", v |-> r]
JBool(b) == [t |-> "bool", v |-> IF b THEN One ELSE Zero]
JStr     == [t |-> "str", v |-> Zero]      \* a text that is not a number
JNull    == [t |-> "null", v |-> Zero]
JMissing == [t |-> "missing", v |-> Zero]

\* What the provider does when it is asked: kind "raise" (generate_content
\* or response.text raises), "text" (an answer that json.loads rejects),
\* "other" (JSON that is not an object) or "object" with its fields.  A fence
\* of ```json ... ``` around the answer is removed before json.loads and
\* leaves these four cases as they are.  Kind "none": it was not asked.
\* overall_explanation is a text, "" when the key is absent (the .get default
\* of line 299) or the text is empty, or IsNone for a JSON null.
Object(d, t, ti, e) ==
    [kind |-> "object", direction_correct |-> d, target_accuracy |-> t,
     timing_accuracy |-> ti, overall_explanation |-> e]
NotObject(kind) == [Object(JMissing, JMissing, JMissing, "") EXCEPT !.kind = kind]
NoReply == NotObject("none")

\* lines 172-177 and 222-227
FromBase(b, why) ==
    [shape |-> "object",
     direction_correct |-> JBool(b.direction_correct),
     target_accuracy   |-> JNum(b.target_score),
     timing_accuracy   |-> JNum(b.timing_score),
     overall_explanation |-> why]

Fallback(mo, direction, target, why) ==
    FromBase(calculate_base_score(mo, direction, target), why)

\* [result, asked, fell_back], reply being what the provider does
verify_with_gemini(gemini_key, mo, direction, target, reply) ==
    IF ~gemini_key
    THEN [result |-> Fallback(mo, direction, target, "market data only (no AI analysis)"),
          asked |-> FALSE, fell_back |-> TRUE]
    ELSE IF reply.kind \in {"raise", "text"}
    THEN [result |-> Fallback(mo, direction, target, "market data only (AI error)"),
          asked |-> TRUE, fell_back |-> TRUE]
    ELSE [result |-> [shape |-> reply.kind,
                      direction_correct |-> reply.direction_correct,
                      target_accuracy   |-> reply.target_accuracy,
                      timing_accuracy   |-> reply.timing_accuracy,
                      overall_explanation |-> reply.overall_explanation],
          asked |-> TRUE, fell_back |-> FALSE]

----------------------------------------------------------------------------
(* accuracy_scorer.verify_prediction *)

NoKey  == "<no key>"     \* the prediction dict has no 'publish_date'
IsNone == "<None>"       \* the key holds None

\* prediction.get('publish_date', prediction.get('created_at', ''))[:10]
\* ok = FALSE is the TypeError of None[:10]
First10(v) ==
    IF v = IsNone THEN [ok |-> FALSE, text |-> ""]
    ELSE [ok |-> TRUE, text |-> SubSeq(v, 1, IF Len(v) < 10 THEN Len(v) ELSE 10)]

PredictionDate(p) ==
    First10(IF p.publish_date = NoKey THEN p.created_at ELSE p.publish_date)

\* float(x) of a JSON value (with the .get default 0.5)
FloatOf(j) ==
    IF j.t = "missing" THEN [ok |-> TRUE, val |-> Half]
    ELSE IF j.t \in {"num", "bool"} THEN [ok |-> TRUE, val |-> j.v]
    ELSE [ok |-> FALSE, val |-> Zero]

\* truthiness of a JSON value
Truthy(j) == (j.t = "str") \/ (j.t \in {"num", "bool"} /\ j.v # Zero)

NoResult ==
    [status |-> "none", direction_correct |-> JMissing,
     target_accuracy |-> Zero, timing_accuracy |-> Zero, overall_score |-> Zero,
     explanation |-> "", market_outcome |-> EmptyOutcome, data_source |-> "unknown"]

\* lines 287-302
Scored(g, mo, d, t, ti) ==
    IF g.shape # "object" \/ ~t.ok \/ ~ti.ok
    THEN [NoResult EXCEPT !.status = "raised", !.market_outcome = mo]
    ELSE [status |-> "verified",
          direction_correct |-> IF g.direction_correct.t = "missing"
                                THEN JBool(FALSE) ELSE g.direction_correct,
          target_accuracy |-> t.val,
          timing_accuracy |-> ti.val,
          overall_score   |-> Round3(Weighted(d, t.val, ti.val)),
          explanation     |-> g.overall_explanation,
          market_outcome  |-> mo,
          data_source     |-> mo.data_source]

\* lines 282-302; a gemini_result that is no dict has no .get
ScoreResult(g, mo) ==
    Scored(g, mo, IF Truthy(g.direction_correct) THEN One ELSE Zero,
           FloatOf(g.target_accuracy), FloatOf(g.timing_accuracy))

\* The record of one verify_prediction call: the dict passed in, the returned
\* dict (result; status "raised" when an exception leaves the function) and
\* what was done on the way.
Nothing(p, today) ==
    [prediction |-> p, today |-> today, market_outcome |-> EmptyOutcome,
     fetched |-> FALSE, search |-> "not called", asked |-> FALSE,
     reply |-> NoReply, fell_back |-> FALSE, gemini |-> "none",
     result |-> NoResult]

\* Variant of Search for the sensitivity test of C26: the search is made for
\* every outcome
SearchAlways(outcome, exa_key) == IF ~exa_key THEN "no key" ELSE "asked"

\* lines 255-263: search_market_outcome_exa is called for no_data and error
\* only, and asks the search provider only when EXA_API_KEY is set.  What the
\* provider finds goes into the prompt and nowhere else.
Search(outcome, exa_key) ==
    IF outcome \notin {"no_data", "error"} THEN "not called"
    ELSE IF ~exa_key THEN "no key"
    ELSE "asked"

\* lines 270-302
Judged(p, keys, today, reply, o, g) ==
    [prediction |-> p, today |-> today, market_outcome |-> o.mo,
     fetched |-> o.fetched,
     search |-> Search(o.mo.outcome, keys.exa),
     asked |-> g.asked, reply |-> IF g.asked THEN reply ELSE NoReply,
     fell_back |-> g.fell_back,
     gemini |-> g.result.shape,
     result |-> ScoreResult(g.result, o.mo)]

\* Variant of Continued for the sensitivity test of C4: no early return for a
\* pending outcome
ContinuedWhenPending(p, keys, today, reply, o) ==
    Judged(p, keys, today, reply, o,
           verify_with_gemini(keys.gemini, o.mo, p.direction, p.target, reply))

\* lines 249-280
Continued(p, keys, today, reply, o) ==
    IF o.mo.outcome = "pending"
    THEN [Nothing(p, today) EXCEPT !.market_outcome = o.mo,
                                   !.fetched = o.fetched,
                                   !.result = [NoResult EXCEPT !.status = "pending"]]
    ELSE Judged(p, keys, today, reply, o,
                verify_with_gemini(keys.gemini, o.mo, p.direction, p.target, reply))

\* lines 240-247
Dated(p, keys, today, data, reply, pd) ==
    IF ~pd.ok
    THEN [Nothing(p, today) EXCEPT !.result = [NoResult EXCEPT !.status = "raised"]]
    ELSE Continued(p, keys, today, reply,
                   get_market_outcome(p.direction, p.target, p.timeframe, pd.text,
                                      today, data))

\* p is the prediction dict; today, data and reply are what the clock, the
\* market-data provider and the language model answer when they are asked
verify_prediction(p, keys, today, data, reply) ==
    Dated(p, keys, today, data, reply, PredictionDate(p))

----------------------------------------------------------------------------
(* database.py: the tables *)

\* A row of predictions, with the columns of its video that the code joins
\* in: [id, direction, target, timeframe, created_at, publish_date, creator,
\* verified].  predictions is the tuple of rows, row i having id i.
PredIds == 1..Len(predictions)

\* the order of two texts as SQLite's ORDER BY compares them (byte by byte)
CharOrder == " -0123456789:TZ"
Rank(c) == CHOOSE i \in 1..Len(CharOrder) : Ch(CharOrder, i) = c

RECURSIVE TextLt(_, _)
TextLt(a, b) ==
    IF b = "" THEN FALSE
    ELSE IF a = "" THEN TRUE
    ELSE IF Ch(a, 1) = Ch(b, 1)
    THEN TextLt(SubSeq(a, 2, Len(a)), SubSeq(b, 2, Len(b)))
    ELSE Rank(Ch(a, 1)) < Rank(Ch(b, 1))

\* ORDER BY p.created_at ASC (rows of equal created_at in rowid order)
Before(i, j) ==
    \/ TextLt(predictions[i].created_at, predictions[j].created_at)
    \/ predictions[i].created_at = predictions[j].created_at /\ i < j

RECURSIVE Ordered(_)
Ordered(S) ==
    IF S = {} THEN <<>>
    ELSE LET first == CHOOSE i \in S : \A j \in S \ {i} : Before(i, j)
         IN  <<first>> \o Ordered(S \ {first})

\* Database.get_unverified_predictions: the ids of the rows it returns
Limit(rows, limit) == SubSeq(rows, 1, IF Len(rows) < limit THEN Len(rows) ELSE limit)

get_unverified_predictions(limit) ==
    Limit(Ordered({i \in PredIds : predictions[i].verified = 0}), limit)

\* the dict that get_unverified_predictions hands to verify_prediction: p.*
\* and three video columns, publish_date not among them
BatchDict(i) == [predictions[i] EXCEPT !.publish_date = NoKey]

\* the dict of verify_prediction_by_id: get_prediction's row with the
\* publish_date of its video put in
SingleDict(i) == predictions[i]

\* int(direction_correct) in add_verification: ok = FALSE is its exception
IntOfJson(j) ==
    IF j.t \in {"bool", "num"}
    THEN [ok |-> TRUE, val |-> IF j.v.n >= 0 THEN j.v.n \div j.v.d
                               ELSE -((-j.v.n) \div j.v.d)]
    ELSE [ok |-> FALSE, val |-> 0]

\* the row add_verification writes for verification result v
VerificationRow(id, prediction_id, v) ==
    [id |-> id, prediction_id |-> prediction_id,
     actual_outcome    |-> v.market_outcome,
     direction_correct |-> IntOfJson(v.direction_correct).val,
     target_accuracy   |-> v.target_accuracy,
     timing_accuracy   |-> v.timing_accuracy,
     overall_score     |-> v.overall_score,
     explanation       |-> v.explanation,
     market_data_source |-> v.data_source]

\* Variant of InsertOrReplace for the sensitivity test of C3: a plain INSERT
\* into a table without the UNIQUE constraint
InsertOnly(table, row) == table \cup {row}

\* INSERT OR REPLACE INTO verifications, prediction_id being UNIQUE: the row
\* that holds the same prediction_id is deleted and the new row gets the next
\* AUTOINCREMENT id
InsertOrReplace(table, row) ==
    {r \in table : r.prediction_id # row.prediction_id} \cup {row}

RECURSIVE SumScores(_)
SumScores(rows) ==
    IF rows = {} THEN Zero
    ELSE LET r == CHOOSE x \in rows : TRUE
         IN  RAdd(r.overall_score, SumScores(rows \ {r}))

\* Database.recalculate_creator_scores: COUNT(*) and AVG(overall_score) over
\* the verifications of the creator's predictions, "or 0" for none
Average(rows) ==
    [total_predictions |-> Cardinality(rows),
     accuracy_score |-> IF rows = {} THEN Zero
                        ELSE RMul(SumScores(rows), R(1, Cardinality(rows)))]

recalculate_creator_scores(table) ==
    [c \in DOMAIN creators |->
        Average({r \in table : predictions[r.prediction_id].creator = c})]

----------------------------------------------------------------------------
(* The commands: accuracy_scorer.verify_prediction_by_id and                *)
(* accuracy_scorer.verify_unverified_predictions.  A command runs alone    *)
(* (one process, no threads); pc says where it stands between two commits, *)
(* "done" being the return of the command to main.verify.                   *)

\* no verify_prediction call made yet
NoCall == [prediction |-> [direction |-> "", target |-> "", timeframe |-> "",
                           created_at |-> "", publish_date |-> "",
                           creator |-> "", verified |-> 0],
           today |-> 0, market_outcome |-> EmptyOutcome,
           fetched |-> FALSE, search |-> "not called", asked |-> FALSE,
           reply |-> NoReply, fell_back |-> FALSE, gemini |-> "none",
           result |-> NoResult]

NoJob ==
    [kind |-> "none", pid |-> 0, queue |-> <<>>, selected |-> <<>>,
     verified |-> 0, pending |-> 0, errors |-> 0, scores |-> <<>>,
     average_score |-> Zero, recalcs |-> 0, returned |-> "nothing"]

NoBase == [called |-> FALSE, market_outcome |-> EmptyOutcome, direction |-> "",
           target |-> "", scores |-> calculate_base_score(EmptyOutcome, "", "")]

NoWindow == [ok |-> FALSE, start_date |-> "", end_date |-> ""]

NoParse == [called |-> FALSE, timeframe |-> "", reference_date |-> "", window |-> NoWindow]

NoMarket == [called |-> FALSE, direction |-> "", target |-> "", timeframe |-> "",
             prediction_date |-> "", data |-> <<>>, result |-> EmptyOutcome]

\* Variant of AfterItem for the sensitivity test of C20: the creator scores
\* are recomputed as soon as one item is done
AfterItemRecalculate(j) == "recalc"

\* what follows one item of the batch loop: the next item, or the
\* recomputation after the last one
AfterItem(j) == IF j.queue = <<>> THEN "recalc" ELSE "item"

\* Variant of SingleVerified for the sensitivity test of C25: the creator
\* scores are recomputed whatever the status
SingleVerifiedRecalculates(pid, c) ==
    /\ call' = c
    /\ job' = [NoJob EXCEPT !.kind = "single", !.pid = pid,
                            !.returned = IF c.result.status = "verified"
                                         THEN "nothing" ELSE c.result.status]
    /\ pc' = IF c.result.status = "verified" THEN "insert" ELSE "recalc"

\* verify_prediction_by_id, lines 404-421, c being what verify_prediction did
SingleVerified(pid, c) ==
    /\ call' = c
    /\ job' = [NoJob EXCEPT !.kind = "single", !.pid = pid,
                            !.returned = IF c.result.status = "verified"
                                         THEN "nothing" ELSE c.result.status]
    /\ pc' = IF c.result.status = "verified" THEN "insert" ELSE "done"

\* verify_prediction_by_id(pid), up to the return of verify_prediction
VerifyById(pid, Series, Replies) ==
    /\ pc = "idle"
    /\ IF pid \notin PredIds
       THEN /\ job' = [NoJob EXCEPT !.kind = "single", !.pid = pid, !.returned = "error"]
            /\ pc' = "done"
            /\ UNCHANGED call
       ELSE \E data \in Series, reply \in Replies :
               SingleVerified(pid, verify_prediction(SingleDict(pid), env, now,
                                                     data, reply))
    /\ UNCHANGED <<env, now, predictions, verifications, verSeq, creators, base, parse, market>>

\* verify_unverified_predictions, lines 316-328
Selected(rows) ==
    /\ job' = [NoJob EXCEPT !.kind = "batch", !.queue = rows, !.selected = rows]
    /\ pc' = IF rows = <<>> THEN "recalc" ELSE "item"

\* verify_unverified_predictions(limit), up to the loop
StartBatch(limit) ==
    /\ pc = "idle"
    /\ Selected(get_unverified_predictions(limit))
    /\ UNCHANGED <<env, now, predictions, verifications, verSeq, creators, call, base, parse, market>>

\* Variant of ItemVerified for the sensitivity test of C21: no try / except
\* around the loop body, an exception of verify_prediction ends the run
ItemVerifiedAborting(rest, c) ==
    /\ call' = c
    /\ IF c.result.status = "verified"
       THEN job' = rest /\ pc' = "insert"
       ELSE IF c.result.status = "pending"
       THEN /\ job' = [rest EXCEPT !.pending = @ + 1]
            /\ pc' = AfterItem(rest)
       ELSE /\ job' = [rest EXCEPT !.returned = "raised"]
            /\ pc' = "done"

\* lines 334-360, c being what verify_prediction did with the head of the queue
ItemVerified(rest, c) ==
    /\ call' = c
    /\ IF c.result.status = "verified"
       THEN job' = rest /\ pc' = "insert"
       ELSE IF c.result.status = "pending"
       THEN /\ job' = [rest EXCEPT !.pending = @ + 1]
            /\ pc' = AfterItem(rest)
       ELSE /\ job' = [rest EXCEPT !.errors = @ + 1]
            /\ pc' = AfterItem(rest)

\* one pass of the loop body up to the return of verify_prediction
BatchVerify(Series, Replies) ==
    /\ pc = "item"
    /\ \E data \in Series, reply \in Replies :
         ItemVerified([job EXCEPT !.pid = Head(job.queue), !.queue = Tail(job.queue)],
                      verify_prediction(BatchDict(Head(job.queue)), env, now,
                                        data, reply))
    /\ UNCHANGED <<env, now, predictions, verifications, verSeq, creators, base, parse, market>>

\* Variant of InsertVerification for the sensitivity test of C27: the flag
\* is set even when the insert has raised
InsertVerificationMarkingAnyway ==
    /\ pc = "insert"
    /\ IF IntOfJson(call.result.direction_correct).ok
       THEN /\ verifications' =
                   InsertOrReplace(verifications,
                                   VerificationRow(verSeq + 1, job.pid, call.result))
            /\ verSeq' = verSeq + 1
       ELSE UNCHANGED <<verifications, verSeq>>
    /\ pc' = "mark"
    /\ UNCHANGED <<job, env, now, predictions, creators, call, base, parse, market>>

\* Database.add_verification, lines 339-349: the INSERT OR REPLACE and its
\* commit.  int(direction_correct) raises before anything is written: the
\* single command ends with the exception, the batch counts an error.
InsertVerification ==
    /\ pc = "insert"
    /\ IF IntOfJson(call.result.direction_correct).ok
       THEN /\ verifications' =
                   InsertOrReplace(verifications,
                                   VerificationRow(verSeq + 1, job.pid, call.result))
            /\ verSeq' = verSeq + 1
            /\ pc' = "mark"
            /\ UNCHANGED job
       ELSE /\ UNCHANGED <<verifications, verSeq>>
            /\ IF job.kind = "batch"
               THEN job' = [job EXCEPT !.errors = @ + 1] /\ pc' = AfterItem(job)
               ELSE job' = [job EXCEPT !.returned = "raised"] /\ pc' = "done"
    /\ UNCHANGED <<env, now, predictions, creators, call, base, parse, market>>

\* lines 352-357 of the batch loop, after add_verification has returned:
\* verification['explanation'][:80] is printed before the item is counted,
\* and an explanation of None raises there, inside the try
Counted(j, v) ==
    IF v.explanation = IsNone
    THEN [j EXCEPT !.errors = @ + 1]
    ELSE [j EXCEPT !.verified = @ + 1, !.scores = Append(@, v.overall_score)]

\* Database.mark_prediction_verified (called by add_verification, line 352)
\* and what the command does with the verification once it is stored
MarkVerified ==
    /\ pc = "mark"
    /\ predictions' = [predictions EXCEPT ![job.pid].verified = 1]
    /\ IF job.kind = "batch"
       THEN /\ job' = Counted(job, call.result)
            /\ pc' = AfterItem(job)
       ELSE /\ UNCHANGED job
            /\ pc' = "recalc"
    /\ UNCHANGED <<env, now, verifications, verSeq, creators, call, base, parse, market>>

RECURSIVE SeqSum(_)
SeqSum(q) == IF q = <<>> THEN Zero ELSE RAdd(Head(q), SeqSum(Tail(q)))

\* db.recalculate_creator_scores() and the return of the command
Recalculate ==
    /\ pc = "recalc"
    /\ creators' = recalculate_creator_scores(verifications)
    /\ job' = [job EXCEPT
                 !.recalcs = @ + 1,
                 !.average_score = IF job.scores = <<>> THEN Zero
                                   ELSE RMul(SeqSum(job.scores), R(1, Len(job.scores))),
                 !.returned = IF job.kind = "batch" THEN "summary" ELSE "verified"]
    /\ pc' = "done"
    /\ UNCHANGED <<env, now, predictions, verifications, verSeq, call, base, parse, market>>

\* main.verify prints what the command returned and the process ends: its
\* local state is gone, the committed tables stay
Return ==
    /\ pc = "done"
    /\ pc' = "idle"
    /\ job' = NoJob
    /\ call' = NoCall
    /\ UNCHANGED <<env, now, predictions, verifications, verSeq, creators, base, parse, market>>

\* Variant of Crash for the sensitivity test of C23: the verification of the
\* item at hand is lost with the process
CrashLosingItem ==
    /\ pc \notin {"idle", "done"}
    /\ pc' = "idle"
    /\ job' = NoJob
    /\ call' = NoCall
    /\ verifications' = {r \in verifications : r.prediction_id # job.pid}
    /\ UNCHANGED <<env, now, predictions, verSeq, creators, base, parse, market>>

\* the process is killed between two steps: its local state is lost, the
\* committed tables stay
Crash ==
    /\ pc \notin {"idle", "done"}
    /\ pc' = "idle"
    /\ job' = NoJob
    /\ call' = NoCall
    /\ UNCHANGED <<env, now, predictions, verifications, verSeq, creators, base, parse, market>>

\* one call of calculate_base_score on the arguments held in base
Score ==
    /\ ~base.called
    /\ base' = [base EXCEPT !.called = TRUE,
                            !.scores = calculate_base_score(base.market_outcome,
                                                            base.direction, base.target)]
    /\ UNCHANGED <<env, now, predictions, verifications, verSeq, creators, pc, job, call,
                   parse, market>>

\* one call of parse_timeframe on the arguments held in parse
Parse ==
    /\ ~parse.called
    /\ parse' = [parse EXCEPT !.called = TRUE,
                              !.window = parse_timeframe(parse.timeframe,
                                                         parse.reference_date)]
    /\ UNCHANGED <<env, now, predictions, verifications, verSeq, creators, pc, job, call,
                   base, market>>

\* one call of get_market_outcome on the arguments held in market, the
\* provider answering with market.data
GetOutcome ==
    /\ ~market.called
    /\ market' = [market EXCEPT !.called = TRUE,
                                !.result = get_market_outcome(
                                               market.direction, market.target,
                                               market.timeframe, market.prediction_date,
                                               now, market.data).mo]
    /\ UNCHANGED <<env, now, predictions, verifications, verSeq, creators, pc, job, call,
                   base, parse>>

\* time passes
Tick(Days) ==
    /\ \E d \in Days : d > now /\ now' = d
    /\ UNCHANGED <<env, predictions, verifications, verSeq, creators, pc, job, call, base, parse, market>>

----------------------------------------------------------------------------
(* Bounds and input sets *)

MaxPreds  == 2      \* rows of predictions in the lifecycle specification
MaxLimit  == 2      \* largest limit given to a batch run
MaxVerSeq == 3      \* verifications inserted in one behaviour
MaxSeries == 2      \* closing prices in one answer of the market-data provider

Directions == {"bullish", "bearish", "neutral"}

\* the market-data provider's answers: up to MaxSeries closes
SeriesOver(Prices) == UNION {[1..n -> Prices] : n \in 0..MaxSeries}

Today0 == MkDate(2025, 1, 1).ord
DueDay == MkDate(2025, 4, 28).ord     \* 180 days after 2024-10-30
Today1 == MkDate(2025, 6, 1).ord

Creators == {"akshat"}

Row(dir, tgt, tf, created, published) ==
    [direction |-> dir, target |-> tgt, timeframe |-> tf, created_at |-> created,
     publish_date |-> published, creator |-> "akshat", verified |-> 0]

\* the tables as _init_db leaves them and no command running
CommonInit ==
    /\ now = Today0
    /\ verifications = {}
    /\ verSeq = 0
    /\ creators = [c \in Creators |-> [total_predictions |-> 0, accuracy_score |-> Zero]]
    /\ pc = "idle"
    /\ job = NoJob
    /\ call = NoCall

----------------------------------------------------------------------------
(* Spec: the life of the store under the two commands, crashes and time *)

LifeRows ==
    { Row("bullish", "110", "Dec 2023", "2024-01-05 10:00:00", "2023-06-01T09:00:00Z"),
      Row("bearish", "", "6 months", "2024-11-01 08:30:00", "2024-10-30T09:00:00Z") }

LifeSeries  == {<<>>, <<100, 106>>}
LifeReplies == {NotObject("raise"),
                Object(JBool(TRUE), JNum(Half), JNum(One), "ai"),
                Object(JNull, JNum(One), JNum(One), "ai")}

Init ==
    /\ CommonInit
    /\ env \in [gemini : BOOLEAN, exa : BOOLEAN]
    /\ predictions \in [1..MaxPreds -> LifeRows]
    /\ base = NoBase
    /\ parse = NoParse
    /\ market = NoMarket

Next ==
    \/ \E pid \in 1..(MaxPreds + 1) :
          verSeq < MaxVerSeq /\ VerifyById(pid, LifeSeries, LifeReplies)
    \/ \E limit \in 0..MaxLimit :
          verSeq + limit <= MaxVerSeq /\ StartBatch(limit)
    \/ BatchVerify(LifeSeries, LifeReplies)
    \/ InsertVerification
    \/ MarkVerified
    \/ Recalculate
    \/ Return
    \/ Crash
    \/ Tick({Today1})

Spec == Init /\ [][Next]_vars

----------------------------------------------------------------------------
(* SpecPipeline: one prediction on an empty store, verified by either      *)
(* command, over many answers of the market-data provider and of the       *)
(* language model                                                          *)

PipeRows ==
    { Row("bearish", "", "Dec 2023", "2024-01-05 10:00:00", "2023-06-01T09:00:00Z"),
      Row("bullish", "110", "6 months", "2024-11-01 08:30:00", "2024-10-30T09:00:00Z"),
      Row("neutral", "1.2.3", "by 2030", "2024-11-01 08:30:00", "") }

PipeSeries == SeriesOver({0, 100, 112})

PipeReplies ==
    {NotObject("raise"), NotObject("text"), NotObject("other")} \cup
    {Object(d, t, ti, "ai") :
        d \in {JBool(TRUE), JBool(FALSE), JNull},
        t \in {JNum(Half), JNum(R(333, 1000)), JNum(R(3, 2)), JNum(R(-1, 5)),
               JStr, JMissing},
        ti \in {JNum(One), JMissing}} \cup
    {Object(JBool(TRUE), JNum(Half), JNum(One), e) : e \in {"", IsNone}}

InitPipeline ==
    /\ CommonInit
    /\ env \in [gemini : BOOLEAN, exa : BOOLEAN]
    /\ predictions \in [1..1 -> PipeRows]
    /\ base = NoBase
    /\ parse = NoParse
    /\ market = NoMarket

NextPipeline ==
    \/ verifications = {} /\ VerifyById(1, PipeSeries, PipeReplies)
    \/ verifications = {} /\ StartBatch(1)
    \/ BatchVerify(PipeSeries, PipeReplies)
    \/ InsertVerification
    \/ MarkVerified
    \/ Recalculate
    \/ Return
    \/ Tick({DueDay, Today1})

SpecPipeline == InitPipeline /\ [][NextPipeline]_vars

----------------------------------------------------------------------------
(* SpecBatch: batch runs only, one after the other, over two predictions   *)
(* and answers of the language model that make the pipeline, the insert    *)
(* or the loop body fail                                                   *)

BatchRows ==
    { Row("bullish", "110", "by 2030", "2024-01-05 10:00:00", "2023-06-01T09:00:00Z"),
      Row("bullish", "110", "Dec 2023", "2024-01-05 10:00:00", "2023-06-01T09:00:00Z"),
      Row("bearish", "", "Dec 2023", "2024-11-01 08:30:00", "2024-10-30T09:00:00Z") }

BatchSeries  == {<<>>, <<100, 106>>}
BatchReplies == {NotObject("raise"),
                 Object(JBool(TRUE), JNum(Half), JNum(One), "ai"),
                 Object(JBool(FALSE), JMissing, JNum(One), ""),
                 Object(JNull, JNum(One), JNum(One), "ai"),
                 Object(JBool(TRUE), JStr, JNum(One), "ai"),
                 Object(JBool(TRUE), JNum(Half), JNum(One), IsNone)}

InitBatch ==
    /\ CommonInit
    /\ env \in [gemini : BOOLEAN, exa : BOOLEAN]
    /\ predictions \in [1..MaxPreds -> BatchRows]
    /\ base = NoBase
    /\ parse = NoParse
    /\ market = NoMarket

NextBatch ==
    \/ \E limit \in 0..MaxLimit :
          verSeq + limit <= MaxVerSeq /\ StartBatch(limit)
    \/ BatchVerify(BatchSeries, BatchReplies)
    \/ InsertVerification
    \/ MarkVerified
    \/ Recalculate
    \/ Return

SpecBatch == InitBatch /\ [][NextBatch]_vars

----------------------------------------------------------------------------
(* SpecRepeat: batch runs with limit 1, one after the other, on a fixed
   day, with no crash and with model answers that are well formed *)

RepeatReplies == {Object(JBool(TRUE), JNum(Half), JNum(One), "ai")}

InitRepeat == InitBatch

NextRepeat ==
    \/ StartBatch(1)
    \/ BatchVerify(BatchSeries, RepeatReplies)
    \/ InsertVerification
    \/ MarkVerified
    \/ Recalculate
    \/ Return

\* The command is run again and again, and a run that has started goes on to
\* its end: weak fairness of each step.  At every position of the program
\* exactly one step is possible and it changes the state, so ENABLED of a
\* step is its position; for the three steps that compute a selection, a
\* pipeline result or the scores, WF_vars(A) is written out with the position
\* in the place of ENABLED <<A>>_vars.
FairStart     == []<>(pc # "idle") \/ []<><<StartBatch(1)>>_vars
FairVerify    == []<>(pc # "item") \/ []<><<BatchVerify(BatchSeries, RepeatReplies)>>_vars
FairRecalc    == []<>(pc # "recalc") \/ []<><<Recalculate>>_vars

SpecRepeat ==
    /\ InitRepeat
    /\ [][NextRepeat]_vars
    /\ FairStart
    /\ FairVerify
    /\ WF_vars(InsertVerification)
    /\ WF_vars(MarkVerified)
    /\ FairRecalc
    /\ WF_vars(Return)

----------------------------------------------------------------------------
(* SpecScore: calculate_base_score on its own, over market-outcome dicts   *)
(* with any status, any combination of the keys it reads and prices that   *)
(* are not negative                                                        *)

ScoreOutcomes ==
    [outcome : {"verified", "pending", "no_data", "error", "missing"},
     actual_direction : Directions \cup {"absent"},
     target_reached : {"true", "false", "null"},
     start_price : {100},
     end_price : {Absent, 100},
     period_high : {Absent, 0, 120, 21800},
     period_low : {Absent, 0, 95},
     data_source : {"nselib"},
     error : {FALSE}]

ScoreDirections == Directions \cup {"sideways"}
ScoreTargets    == {"", "Rs 110", "50", "abc", "0", "25000"}

InitScore ==
    /\ CommonInit
    /\ env = [gemini |-> FALSE, exa |-> FALSE]
    /\ predictions = <<>>
    /\ base \in [called : {FALSE}, market_outcome : ScoreOutcomes,
                 direction : ScoreDirections, target : ScoreTargets,
                 scores : {NoBase.scores}]
    /\ parse = NoParse
    /\ market = NoMarket

NextScore == Score

SpecScore == InitScore /\ [][NextScore]_vars

----------------------------------------------------------------------------
(* SpecTimeframe: parse_timeframe on its own, over timeframe texts of every *)
(* rule and reference dates that include the empty one                     *)

ParseTimeframes ==
    {"2025", "by 2030", "by 2040", "in 2019", "market 2024", "calendar 2026",
     "end of 2025", "by end 2040", "Dec 2023", "end of March 2025", "Sept. 2025",
     "feb 2024", "dec 9999", "jan 0000", "6 months", "next few months",
     "3 years or 2 months", "2 years", "next year", "99999 years", "0 months",
     "soon", ""}

ParseDates == {"2023-06-01", "2024-02-29", "2024-10-30", ""}

InitTimeframe ==
    /\ CommonInit
    /\ env = [gemini |-> FALSE, exa |-> FALSE]
    /\ predictions = <<>>
    /\ base = NoBase
    /\ market = NoMarket
    /\ parse \in [called : {FALSE}, timeframe : ParseTimeframes,
                  reference_date : ParseDates, window : {NoWindow}]

NextTimeframe == Parse

SpecTimeframe == InitTimeframe /\ [][NextTimeframe]_vars

----------------------------------------------------------------------------
(* SpecOutcome: get_market_outcome on its own, the provider answering with *)
(* any series of up to MaxSeries closes                                    *)

OutcomeSeries     == SeriesOver({0, 94, 95, 100, 105, 106})
OutcomeTargets    == {"", "Rs 2,500", "105", "95", "abc"}
OutcomeTimeframes == {"Dec 2023", "by 2030"}
OutcomeDates      == {"2023-06-01", ""}

InitOutcome ==
    /\ CommonInit
    /\ env = [gemini |-> FALSE, exa |-> FALSE]
    /\ predictions = <<>>
    /\ base = NoBase
    /\ parse = NoParse
    /\ market \in [called : {FALSE}, direction : ScoreDirections,
                   target : OutcomeTargets, timeframe : OutcomeTimeframes,
                   prediction_date : OutcomeDates, data : OutcomeSeries,
                   result : {EmptyOutcome}]

NextOutcome == GetOutcome

SpecOutcome == InitOutcome /\ [][NextOutcome]_vars

----------------------------------------------------------------------------
(* The claims *)

\* the specification's weights applied to three sub-scores
SpecWeighted(d, t, ti) ==
    RAdd(RAdd(RMul(R(40, 100), d), RMul(R(40, 100), t)), RMul(R(20, 100), ti))

\* the actual direction calculate_base_score reads from the dict in base
BaseActual ==
    IF base.market_outcome.actual_direction = "absent" THEN "neutral"
    ELSE base.market_outcome.actual_direction

\* C1: for every market outcome, direction and target, the overall_score of
\* calculate_base_score is exactly 0.40*direction_score + 0.40*target_score +
\* 0.20*timing_score of the sub-scores it returns, and all four scores lie in
\* [0,1].
C1_OverallIsWeightedAndInUnit ==
    base.called =>
        /\ base.scores.overall_score =
              SpecWeighted(base.scores.direction_score, base.scores.target_score,
                           base.scores.timing_score)
        /\ InUnit(base.scores.direction_score)
        /\ InUnit(base.scores.target_score)
        /\ InUnit(base.scores.timing_score)
        /\ InUnit(base.scores.overall_score)

\* a missed target scored by how close the price came
C1_Witness ==
    /\ base.called
    /\ base.market_outcome.outcome = "verified"
    /\ base.market_outcome.target_reached = "false"
    /\ base.direction = "bullish"
    /\ base.target = "50"
    /\ base.market_outcome.period_high = 120
    /\ base.scores.target_score = R(7, 10)

\* C2: whenever the outcome's status is not 'verified' (pending, no_data,
\* error or missing), calculate_base_score returns direction_score,
\* target_score, timing_score and overall_score all 0, whatever the direction
\* and the target.
C2_NotVerifiedScoresZero ==
    (base.called /\ base.market_outcome.outcome # "verified") =>
        /\ base.scores.direction_score = Zero
        /\ base.scores.target_score = Zero
        /\ base.scores.timing_score = Zero
        /\ base.scores.overall_score = Zero

\* an unverified outcome whose dict would score if it were read
C2_Witness ==
    /\ base.called
    /\ base.market_outcome.outcome = "no_data"
    /\ base.direction = "bullish"
    /\ base.market_outcome.actual_direction = "bullish"
    /\ base.market_outcome.target_reached = "true"
    /\ base.target = "Rs 110"

\* C3: after any sequence of single and batch runs, re-verifications
\* included, the store holds at most one verification per prediction id.
C3_OneVerificationPerPrediction ==
    \A pid \in PredIds :
        Cardinality({r \in verifications : r.prediction_id = pid}) <= 1

\* prediction 1 verified a second time: its only row is the second insert
C3_Witness ==
    /\ verSeq = 2
    /\ \E r \in verifications : r.prediction_id = 1 /\ r.id = 2
    /\ \A r \in verifications : r.prediction_id = 1

C4_PendingStops ==
    call.market_outcome.outcome = "pending" =>
        /\ call.result.status = "pending"
        /\ ~call.asked
        /\ call.search = "not called"
        /\ pc \notin {"insert", "mark"}
        /\ job.kind = "single" => (pc = "done" /\ job.returned = "pending")
        /\ job.kind = "batch" => job.pending >= 1

C4_PendingWritesNothing ==
    call'.market_outcome.outcome = "pending" =>
        /\ verifications' = verifications
        /\ verSeq' = verSeq
        /\ predictions' = predictions

\* C4: when the market outcome is 'pending' the pipeline stops and reports
\* status 'pending': no verification is persisted, the prediction is not
\* marked verified, and neither the language model nor the search provider is
\* called, in the batch run and in the single run.
C4_PendingNothingDone == []C4_PendingStops /\ [][C4_PendingWritesNothing]_vars

\* a batch that stored one verification and then met a pending prediction
C4_Witness ==
    /\ call.market_outcome.outcome = "pending"
    /\ job.kind = "batch"
    /\ job.verified = 1
    /\ job.pending = 1
    /\ Cardinality(verifications) = 1

\* the window get_market_outcome resolved in the last verify_prediction call
CallWindow ==
    ResolveWindow(call.prediction.timeframe, PredictionDate(call.prediction).text)

\* C5: get_market_outcome returns 'pending' if and only if the end date of
\* the resolved window is after now, and when it returns 'pending' it has not
\* called the market-data provider.
C5_PendingIffEndAfterNow ==
    (call.today # 0 /\ PredictionDate(call.prediction).ok) =>
        /\ call.market_outcome.outcome = "pending" <=>
              (CallWindow.ok /\ CallWindow.end.ok /\ CallWindow.end.ord > call.today)
        /\ call.market_outcome.outcome = "pending" => ~call.fetched

\* pending two days before the end of the window
C5_Witness ==
    /\ call.market_outcome.outcome = "pending"
    /\ ~call.fetched
    /\ call.today = DueDay
    /\ CallWindow.end.ord = DueDay + 2

\* the scores calculate_base_score gives for the last verify_prediction call
CallBase ==
    calculate_base_score(call.market_outcome, call.prediction.direction,
                         call.prediction.target)

\* the direction sub-score that enters the pipeline's overall_score
CallDirectionScore ==
    IF Truthy(call.result.direction_correct) THEN One ELSE Zero

\* C6: whenever the language model is unconfigured or its call fails, the
\* scores verify_prediction reports and persists are those of
\* calculate_base_score for the same outcome, direction and target: the same
\* direction, target and timing sub-scores and the same overall_score.
C6_FallbackEqualsBase ==
    (call.fell_back /\ call.result.status = "verified") =>
        /\ CallDirectionScore = CallBase.direction_score
        /\ call.result.target_accuracy = CallBase.target_score
        /\ call.result.timing_accuracy = CallBase.timing_score
        /\ call.result.overall_score = CallBase.overall_score

\* an answer that is not JSON, or JSON of another shape than the required one
Malformed(reply) ==
    \/ reply.kind \in {"text", "other"}
    \/ /\ reply.kind = "object"
       /\ \/ reply.target_accuracy.t # "num"
          \/ reply.timing_accuracy.t # "num"

\* C7: every answer of the model that is not JSON or is malformed (text that
\* is not JSON, JSON that is not an object, accuracy fields that are missing
\* or not numbers) is treated as a provider failure: the pipeline falls back
\* to the Base Scorer's values and returns a result without raising.
C7_MalformedFallsBack ==
    (call.asked /\ Malformed(call.reply)) =>
        /\ call.result.status = "verified"
        /\ call.fell_back
        /\ call.result.target_accuracy = CallBase.target_score
        /\ call.result.timing_accuracy = CallBase.timing_score

\* what verify_prediction takes from a field of the model's answer
Returned(j) == IF j.t = "missing" THEN Half ELSE j.v

\* the weighted sum of the model's judgment in the last call
CallJudgment ==
    SpecWeighted(IF Truthy(call.reply.direction_correct) THEN One ELSE Zero,
                 Returned(call.reply.target_accuracy),
                 Returned(call.reply.timing_accuracy))

ModelSucceeded == call.asked /\ ~call.fell_back /\ call.result.status = "verified"

\* C8 as stated: when the model call succeeds, overall_score is
\* 0.40*d + 0.40*t + 0.20*ti of the model's judgment.
C8_OverallIsJudgment ==
    ModelSucceeded =>
        call.result.overall_score =
            SpecWeighted(CallDirectionScore, call.result.target_accuracy,
                         call.result.timing_accuracy)

\* C8, amended: when the model call succeeds, overall_score is
\* 0.40*d + 0.40*t + 0.20*ti rounded to three decimals, d being 1 for a truthy
\* direction_correct and 0 otherwise, t and ti the target_accuracy and
\* timing_accuracy of the answer, 0.5 for one the answer leaves out; nothing
\* of the Base Scorer enters it.
C8_OverallIsRoundedJudgment ==
    ModelSucceeded =>
        /\ (call.result.overall_score.n * 1000) % call.result.overall_score.d = 0
        /\ RLe(RAdd(call.result.overall_score, R(-1, 2000)), CallJudgment)
        /\ RLe(CallJudgment, RAdd(call.result.overall_score, R(1, 2000)))

\* a judgment whose weighted sum has more than three decimals
C8_Witness ==
    /\ ModelSucceeded
    /\ call.reply.target_accuracy = JNum(R(333, 1000))
    /\ call.result.overall_score # CallJudgment

\* C9: every result verify_prediction returns with status 'verified' has
\* target_accuracy, timing_accuracy and overall_score in [0,1], for every
\* answer of the model and every market outcome.
C9_VerifiedScoresInUnit ==
    call.result.status = "verified" =>
        /\ InUnit(call.result.target_accuracy)
        /\ InUnit(call.result.timing_accuracy)
        /\ InUnit(call.result.overall_score)

\* C10: for a verified outcome, direction_score is 1.0 exactly when the
\* predicted direction equals actual_direction, 0.3 exactly when the
\* prediction is bullish or bearish and actual_direction is neutral, and 0.0
\* in every other case; a bearish prediction with no target and a neutral
\* actual direction scores 0.3 / 0.5 / 0.8 and overall 0.48.
C10_DirectionScore ==
    (base.called /\ base.market_outcome.outcome = "verified") =>
        /\ base.scores.direction_score = One <=> base.direction = BaseActual
        /\ base.scores.direction_score = R(3, 10) <=>
              (base.direction \in {"bullish", "bearish"} /\ BaseActual = "neutral")
        /\ base.scores.direction_score \in {One, R(3, 10), Zero}
        /\ (base.direction = "bearish" /\ base.target = "" /\ BaseActual = "neutral") =>
              /\ base.scores.target_score = R(5, 10)
              /\ base.scores.timing_score = R(8, 10)
              /\ base.scores.overall_score = R(48, 100)

\* Scenario B
C10_Witness ==
    /\ base.called
    /\ base.market_outcome.outcome = "verified"
    /\ base.direction = "bearish"
    /\ base.target = ""
    /\ base.market_outcome.actual_direction = "neutral"
    /\ base.scores.direction_score = R(3, 10)
    /\ base.scores.overall_score = R(12, 25)

\* the target of the last calculate_base_score call as a number
BaseTarget == TargetPrice(base.target)

\* 0.7 * min(1, a/b) for whole a and rational b > 0
SeventyPercentOf(a, b) == RMul(R(7, 10), RMin(One, R(a * b.d, b.n)))

\* 0.7 * min(1, a/b) for rational a and whole b > 0
SeventyPercentUnder(a, b) == RMul(R(7, 10), RMin(One, R(a.n, a.d * b)))

\* C11: for a verified outcome, target_score is 0.5 when no target was
\* specified, 1.0 when a target was specified and target_reached is true,
\* and for a specified and missed target 0.7 * min(1, period_high/target)
\* (bullish) or 0.7 * min(1, target/period_low) (bearish): a missed target
\* never scores above 0.7.  The two ratios are stated where they exist: a
\* target that is a number above 0 and a price that is there and not 0.
C11_TargetScore ==
    (base.called /\ base.market_outcome.outcome = "verified") =>
        /\ base.target = "" => base.scores.target_score = Half
        /\ (base.target # "" /\ base.market_outcome.target_reached = "true") =>
              base.scores.target_score = One
        /\ (base.target # "" /\ base.market_outcome.target_reached = "false") =>
              /\ RLe(base.scores.target_score, R(7, 10))
              /\ (/\ BaseTarget.ok /\ BaseTarget.val.n > 0
                  /\ base.direction = "bullish"
                  /\ base.market_outcome.period_high > 0) =>
                    base.scores.target_score =
                        SeventyPercentOf(base.market_outcome.period_high, BaseTarget.val)
              /\ (/\ BaseTarget.ok /\ BaseTarget.val.n > 0
                  /\ base.direction = "bearish"
                  /\ base.market_outcome.period_low > 0) =>
                    base.scores.target_score =
                        SeventyPercentUnder(BaseTarget.val, base.market_outcome.period_low)

\* Scenario A: a high of 21800 against a bullish target of 25000
C11_Witness ==
    /\ base.called
    /\ base.market_outcome.outcome = "verified"
    /\ base.market_outcome.target_reached = "false"
    /\ base.direction = "bullish"
    /\ base.target = "25000"
    /\ base.market_outcome.period_high = 21800
    /\ base.scores.target_score = R(6104, 10000)

\* C12: when a target text is supplied but cannot be parsed as a number, so
\* that target_reached is null, calculate_base_score on a verified outcome
\* gives target_score 0.5.
C12_UnparsableTargetScoresHalf ==
    (/\ base.called
     /\ base.market_outcome.outcome = "verified"
     /\ base.target # ""
     /\ ~BaseTarget.ok
     /\ base.market_outcome.target_reached = "null") =>
        base.scores.target_score = Half

----------------------------------------------------------------------------
(* Claims on parse_timeframe.  What a reader sees in a timeframe text: its *)
(* words (maximal runs of letters, in lower case) and its numbers (maximal *)
(* runs of digits).                                                        *)

IsLetter(c) == c \in LowerLetters \cup UpperLetters

Runs(s, In(_)) ==
    {r \in (1..Len(s)) \X (1..Len(s)) :
        /\ r[1] <= r[2]
        /\ \A k \in r[1]..r[2] : In(Ch(s, k))
        /\ (r[1] = 1 \/ ~In(Ch(s, r[1] - 1)))
        /\ (r[2] = Len(s) \/ ~In(Ch(s, r[2] + 1)))}

WordsOf(s)   == {Lower(SubSeq(s, r[1], r[2])) : r \in Runs(s, IsLetter)}
NumbersOf(s) == {SubSeq(s, r[1], r[2]) : r \in Runs(s, LAMBDA c : c \in Digits)}

MonthNames ==
    {"january", "february", "march", "april", "may", "june", "july", "august",
     "september", "october", "november", "december", "sept"}
    \cup {MonthAbbrs[m] : m \in 1..12}

NamesMonth(s) == WordsOf(s) \cap MonthNames # {}
SaysEnd(s)    == "end" \in WordsOf(s)
YearsIn(s)    == {IntOf(n) : n \in {x \in NumbersOf(s) : Len(x) = 4}}

DateText(y, m, d) == IntToText(y) \o "-" \o Pad2(m) \o "-" \o Pad2(d)

WholeYear(y) ==
    [ok |-> TRUE, start_date |-> DateText(y, 1, 1), end_date |-> DateText(y, 12, 31)]
LastQuarter(y) ==
    [ok |-> TRUE, start_date |-> DateText(y, 10, 1), end_date |-> DateText(y, 12, 31)]

\* C13: for every timeframe text with a 4-digit year, no month name and no
\* word "end", and for every reference date, parse_timeframe returns January 1
\* to December 31 of that year (stated for the calls that return).
C13_BareYearIsWholeYear ==
    (/\ parse.called
     /\ parse.window.ok
     /\ YearsIn(parse.timeframe) # {}
     /\ ~NamesMonth(parse.timeframe)
     /\ ~SaysEnd(parse.timeframe)) =>
        \E y \in YearsIn(parse.timeframe) : parse.window = WholeYear(y)

\* C14: a timeframe text with the word "end" and a year, and no month+year
\* pattern, resolves to October 1 to December 31 of that year; a text with a
\* year and without the word "end" never resolves to that window (stated for
\* the calls that return).
C14_EndOfYearIsLastQuarter ==
    (parse.called /\ parse.window.ok) =>
        /\ (/\ SaysEnd(parse.timeframe)
            /\ YearsIn(parse.timeframe) # {}
            /\ ~MonthYearSearch(Strip(Lower(parse.timeframe))).found) =>
               \E y \in YearsIn(parse.timeframe) : parse.window = LastQuarter(y)
        /\ (YearsIn(parse.timeframe) # {} /\ ~SaysEnd(parse.timeframe)) =>
               \A y \in YearsIn(parse.timeframe) : parse.window # LastQuarter(y)

ParsedText == Strip(Lower(parse.timeframe))

CalendarMonth(y, m) ==
    [ok |-> TRUE, start_date |-> DateText(y, m, 1),
     end_date |-> DateText(y, m, DaysInMonth(y, m))]

\* [ref, ref + n days]
DaysAfter(ref, n) ==
    [ok |-> TRUE, start_date |-> ref, end_date |-> Strftime(Strptime(ref).ord + n)]

\* the window of the first rule that matches, in the order month+year, year
\* with "end", bare year, months phrase, years phrase, fallback
FirstRuleWindow(tf, ref, my, yr) ==
    IF my.found THEN CalendarMonth(my.year, my.month)
    ELSE IF yr.found /\ Contains(tf, "end") THEN LastQuarter(yr.year)
    ELSE IF yr.found THEN WholeYear(yr.year)
    ELSE IF Contains(tf, "month") THEN DaysAfter(ref, CountBefore(tf, "month", 6) * 30)
    ELSE IF Contains(tf, "year") THEN DaysAfter(ref, CountBefore(tf, "year", 1) * 365)
    ELSE DaysAfter(ref, 180)

\* C15: parse_timeframe applies its rules in the order month+year, year with
\* "end", bare year, "N month(s)", "N year(s)", fallback, and the first rule
\* that matches alone decides the window: the calendar month; [ref, ref + N*30
\* days] with N = 6 when no number is given; [ref, ref + N*365 days] with N = 1
\* when no number is given; [ref, ref + 180 days] when nothing matches.
C15_FirstMatchingRuleDecides ==
    (parse.called /\ parse.window.ok) =>
        parse.window = FirstRuleWindow(ParsedText, parse.reference_date,
                                       MonthYearSearch(ParsedText),
                                       YearSearch(ParsedText))

\* a text in which a later rule matches too: a months phrase and a years
\* phrase, resolved by the months phrase
C15_Witness ==
    /\ parse.called
    /\ parse.window.ok
    /\ Contains(ParsedText, "month")
    /\ Contains(ParsedText, "year")
    /\ parse.window = DaysAfter(parse.reference_date, 60)

\* C16: for every timeframe text and every reference date the pipeline can
\* pass, the empty date of a prediction with no publish or creation date
\* included, parse_timeframe raises no error and returns a window whose
\* start_date is on or before its end_date.
C16_ResolverNeverRaises ==
    parse.called =>
        /\ parse.window.ok
        /\ Strptime(parse.window.start_date).ord <= Strptime(parse.window.end_date).ord

----------------------------------------------------------------------------
(* Claims on get_market_outcome *)

\* (end_price - start_price) / start_price * 100 of the last outcome
ChangePct ==
    R((market.result.end_price - market.result.start_price) * 100,
      market.result.start_price)

MarketVerified == market.called /\ market.result.outcome = "verified"

\* C17: for a verified outcome, actual_direction is "bullish" exactly when the
\* percent change is strictly above +5, "bearish" exactly when it is strictly
\* below -5 and "neutral" otherwise; a change of exactly +5% or -5% is neutral.
C17_ActualDirection ==
    MarketVerified =>
        /\ market.result.actual_direction = "bullish" <=> RLt(R(5, 1), ChangePct)
        /\ market.result.actual_direction = "bearish" <=> RLt(ChangePct, R(-5, 1))
        /\ market.result.actual_direction = "neutral" <=>
               (RLe(R(-5, 1), ChangePct) /\ RLe(ChangePct, R(5, 1)))

\* a change of exactly +5%
C17_Witness ==
    /\ MarketVerified
    /\ ChangePct = R(5, 1)
    /\ market.result.actual_direction = "neutral"

\* the target text of the last call with every character that is not a digit
\* or a decimal point removed, as a number
MarketTarget == TargetPrice(market.target)

TargetGiven == market.target # "" /\ MarketTarget.ok

\* C18: with a verified outcome, the target is the number left after removing
\* every character that is not a digit or a decimal point; target_reached is
\* period_high >= target for a bullish prediction and period_low <= target
\* for any other one, and null when the stripped text is not a number or no
\* target was supplied.
C18_TargetReached ==
    MarketVerified =>
        /\ market.result.target_reached \in {"true", "false", "null"}
        /\ market.result.target_reached = "null" <=> ~TargetGiven
        /\ (TargetGiven /\ market.direction = "bullish") =>
               (market.result.target_reached = "true" <=>
                    RLe(MarketTarget.val, R(market.result.period_high, 1)))
        /\ (TargetGiven /\ market.direction # "bullish") =>
               (market.result.target_reached = "true" <=>
                    RLe(R(market.result.period_low, 1), MarketTarget.val))

\* "Rs 2,500" read as 2500 for a prediction that is neither bullish nor
\* bearish, and reached by the period low
C18_Witness ==
    /\ MarketVerified
    /\ market.target = "Rs 2,500"
    /\ MarketTarget = [ok |-> TRUE, val |-> R(2500, 1)]
    /\ market.direction = "sideways"
    /\ market.result.target_reached = "true"

\* the window of the last call, parsed anew from its arguments
MarketWindow == parse_timeframe(market.timeframe, market.prediction_date)

\* the window was resolved and its end has passed: the provider is asked
MarketDue == MarketWindow.ok /\ Strptime(MarketWindow.end_date).ord <= now

\* no series, or a series whose first or last close is missing
LacksPrice ==
    \/ market.data = <<>>
    \/ market.data[1] = 0
    \/ market.data[Len(market.data)] = 0

\* C19: get_market_outcome always returns an outcome dict; when the provider
\* returns no price series, or one lacking a start or end price, the outcome
\* is "no_data"; when an exception occurs (here: parse_timeframe raises) the
\* outcome is "error" and the result keeps the error.
C19_NeverRaises ==
    market.called =>
        /\ market.result.outcome \in {"pending", "verified", "no_data", "error"}
        /\ (MarketDue /\ LacksPrice) =>
               (market.result.outcome = "no_data" /\ ~market.result.error)
        /\ ~MarketWindow.ok =>
               (market.result.outcome = "error" /\ market.result.error)
        /\ market.result.error <=> market.result.outcome = "error"

\* the empty prediction date makes parse_timeframe raise
C19_Witness ==
    /\ market.called
    /\ market.prediction_date = ""
    /\ ~MarketWindow.ok
    /\ market.result.outcome = "error"
    /\ market.result.error

----------------------------------------------------------------------------
(* Claims on the batch command *)

\* C20: one run of verify_unverified_predictions recomputes the creator
\* scores exactly once, after the last item and never between items, for
\* every batch size (the empty batch included) and also when items fail: in
\* every step of a batch run, the recomputation count and the creators table
\* change only in the step that follows the last item, which is the first
\* recomputation of the run and ends it; inside the loop the count is 0 and
\* at the return it is 1.
C20_OneRecalculationAtEnd ==
    [][(job.kind = "batch" /\ pc' # "idle") =>
           /\ (job'.recalcs # job.recalcs \/ creators' # creators) =>
                  /\ pc = "recalc"
                  /\ job.queue = <<>>
                  /\ job.recalcs = 0
                  /\ job'.recalcs = 1
                  /\ creators' = recalculate_creator_scores(verifications)
                  /\ pc' = "done"
           /\ pc' \in {"item", "insert", "mark", "recalc"} => job'.recalcs = 0
           /\ pc' = "done" => job'.recalcs = 1]_vars

\* a batch of two items, one of which failed, at its return
C20_Witness ==
    /\ pc = "done"
    /\ job.kind = "batch"
    /\ Len(job.selected) = 2
    /\ job.errors >= 1
    /\ job.recalcs = 1

\* an item of the batch fails in this step: verify_prediction raises, the
\* insert of add_verification raises, or the loop body raises after it
ItemFailed ==
    /\ job.kind = "batch"
    /\ \/ pc = "item" /\ call'.result.status \notin {"verified", "pending"}
       \/ pc = "insert" /\ ~IntOfJson(call.result.direction_correct).ok
       \/ pc = "mark" /\ call.result.explanation = IsNone

\* the items of the batch that have not been started
Remaining == IF pc = "item" THEN Tail(job.queue) ELSE job.queue

\* C21: in a batch run a failure while verifying or persisting one prediction
\* never aborts the batch: it adds one to the errors tally, the run goes on
\* with the next prediction of the list (or to its end after the last one),
\* and the run that returns has worked through the whole list and returns its
\* summary.
C21_FailureNeverAborts ==
    [][(ItemFailed =>
           /\ job'.kind = "batch"
           /\ job'.errors = job.errors + 1
           /\ job'.verified = job.verified
           /\ job'.pending = job.pending
           /\ job'.selected = job.selected
           /\ job'.queue = Remaining
           /\ pc' = IF Remaining = <<>> THEN "recalc" ELSE "item")
       /\ ((job'.kind = "batch" /\ pc' = "done") =>
              (job'.queue = <<>> /\ job'.returned = "summary"))]_vars

\* one of two items failed and the item after it was verified
C21_Witness ==
    /\ pc = "done"
    /\ job.kind = "batch"
    /\ Len(job.selected) = 2
    /\ job.errors = 1
    /\ job.verified = 1
    /\ job.returned = "summary"
    /\ call.result.status = "verified"

----------------------------------------------------------------------------
(* Claims on the creators table *)

\* SQL NULL in a REAL column: no number
SqlNull == [n |-> 0, d |-> 0]

\* the verifications of the predictions of creator c
VerificationsOf(c) == {r \in verifications : predictions[r.prediction_id].creator = c}

\* the creator scores have just been recomputed
Recalculated == pc = "done" /\ job.recalcs = 1

\* C22: after recalculate_creator_scores, each creator's accuracy score is
\* the average of the overall_score of all verifications of that creator's
\* predictions, and a creator without a verification has a null score rather
\* than a number.
C22_CreatorScoreIsAverageOrNull ==
    Recalculated =>
        \A c \in DOMAIN creators :
            IF VerificationsOf(c) = {}
            THEN creators[c].accuracy_score = SqlNull
            ELSE RMul(creators[c].accuracy_score, R(Cardinality(VerificationsOf(c)), 1))
                     = SumScores(VerificationsOf(c))

----------------------------------------------------------------------------
(* Claims on crashes and on the flag of a prediction *)

\* the process is killed in this step
Crashed == pc \notin {"idle", "done"} /\ pc' = "idle"

\* the ids in a tuple of ids
Ids(q) == {q[k] : k \in 1..Len(q)}

Unverified == {i \in PredIds : predictions[i].verified = 0}

C23_CrashKeepsStore ==
    /\ Crashed =>
          /\ verifications' = verifications
          /\ predictions' = predictions
          /\ job.kind = "batch" => Ids(job.queue) \subseteq Unverified
    /\ (pc = "idle" /\ job'.kind = "batch") =>
          /\ Ids(job'.selected) \subseteq Unverified
          /\ \A i \in Unverified \ Ids(job'.selected), j \in Ids(job'.selected) :
                 Before(j, i)
          /\ job'.queue = job'.selected

C23_OneRowEach ==
    \A pid \in PredIds :
        Cardinality({r \in verifications : r.prediction_id = pid}) <= 1

----------------------------------------------------------------------------
(* Claims on the result of the pipeline *)

\* a text a person can read: not the empty text, not None
Readable(e) == e \notin {"", IsNone}

\* C24: every result of verify_prediction with status "verified" and every
\* stored verification carries a non-empty explanation text, when the
\* language model answered and in fallback mode.
C24_ExplanationNeverEmpty ==
    /\ call.result.status = "verified" => Readable(call.result.explanation)
    /\ \A r \in verifications : Readable(r.explanation)

----------------------------------------------------------------------------
(* Claims on the single command *)

\* the store holds the verification of prediction pid as its newest row
OwnVerificationStored(pid) ==
    \E r \in verifications : r.prediction_id = pid /\ r.id = verSeq

TablesUnchanged ==
    /\ verifications' = verifications
    /\ verSeq' = verSeq
    /\ predictions' = predictions
    /\ creators' = creators

C25_SingleStep ==
    /\ (job.kind = "single" /\ pc' # "idle"
        /\ (job'.recalcs # job.recalcs \/ creators' # creators)) =>
          /\ pc = "recalc"
          /\ OwnVerificationStored(job.pid)
          /\ predictions[job.pid].verified = 1
          /\ job.recalcs = 0
          /\ job'.recalcs = 1
          /\ pc' = "done"
    /\ (pc = "idle" /\ job'.kind = "single") =>
          /\ TablesUnchanged
          /\ job'.pid \notin PredIds => (job'.returned = "error" /\ pc' = "done")
          /\ (job'.pid \in PredIds /\ call'.result.status = "pending") =>
                (job'.returned = "pending" /\ pc' = "done")
    /\ (job'.kind = "single" /\ pc' = "done") =>
          job'.recalcs = (IF job'.returned = "verified" THEN 1 ELSE 0)

\* C25: verify_prediction_by_id recomputes the creator scores exactly once
\* and only after its own verification has been stored; for a prediction that
\* does not exist it returns an error status and for a pending result it
\* returns pending, in both cases without storing anything and without
\* recomputing.
C25_SingleRecalculatesOnce == [][C25_SingleStep]_vars

\* the single command at its return, its verification stored and the scores
\* recomputed
C25_Witness ==
    /\ job.kind = "single"
    /\ pc = "done"
    /\ job.returned = "verified"
    /\ job.recalcs = 1
    /\ OwnVerificationStored(job.pid)
    /\ creators[predictions[job.pid].creator].total_predictions >= 1

\* the market outcome of the last verify_prediction call gave no prices
NoPrices == call.market_outcome.outcome \in {"no_data", "error"}

C26_State ==
    /\ call.search # "not called" <=> NoPrices
    /\ NoPrices =>
          /\ call.gemini # "none"
          /\ call.result.status # "pending"
          /\ call.result.status # "raised" => call.result.status = "verified"
    /\ \A i \in PredIds :
          predictions[i].verified = 1 => i \notin Ids(get_unverified_predictions(MaxPreds))

C26_Step ==
    /\ (NoPrices' /\ pc \in {"idle", "item"} /\ call' # call
        /\ call'.result.status = "verified") => pc' = "insert"
    /\ (NoPrices /\ pc = "insert" /\ pc' # "insert"
        /\ IntOfJson(call.result.direction_correct).ok) =>
          /\ \E r \in verifications' :
                 r.prediction_id = job.pid /\ r.overall_score = call.result.overall_score
          /\ pc' = "mark"
    /\ (NoPrices /\ pc = "mark" /\ pc' # "mark") => predictions'[job.pid].verified = 1

\* C26: a prediction whose market outcome is "no_data" or "error" is not
\* stopped: search_market_outcome_exa is called, and only for these two
\* outcomes; the prediction is scored and, when the scoring returns, reported
\* with status "verified", stored as a verification and marked verified, and
\* a marked prediction is not selected by a batch run again.
C26_NoPricesStillVerified == []C26_State /\ [][C26_Step]_vars

\* the resolver failed, the search provider was asked, and the prediction
\* has its verification and its flag
C26_Witness ==
    /\ call.market_outcome.outcome = "error"
    /\ call.search = "asked"
    /\ call.result.status = "verified"
    /\ predictions[1].verified = 1
    /\ \E r \in verifications : r.prediction_id = 1

----------------------------------------------------------------------------
(* Claims on the store between the commits of add_verification *)

\* the verifications stored for prediction pid
RowsOf(pid) == {r \in verifications : r.prediction_id = pid}

C27_Flagged ==
    \A pid \in PredIds :
        predictions[pid].verified = 1 => Cardinality(RowsOf(pid)) = 1

C27_FlagStep ==
    \A pid \in PredIds :
        (predictions[pid].verified = 0 /\ predictions'[pid].verified = 1) =>
            /\ pc = "mark"
            /\ job.pid = pid
            /\ RowsOf(pid) # {}
            /\ verifications' = verifications

\* C27: in every state of the store, the states between the two commits of
\* add_verification and the states after a crash included, a prediction whose
\* verified flag is 1 has exactly one verification; the flag is set only by
\* the step that follows the commit of the row, and the row is there then.
C27_FlagImpliesOneRecord == []C27_Flagged /\ [][C27_FlagStep]_vars

\* after a crash between the two commits of a second add_verification:
\* prediction 1 has its flag and its row, prediction 2 has a row and no flag
C27_Witness ==
    /\ pc = "idle"
    /\ job = NoJob
    /\ predictions[1].verified = 1
    /\ Cardinality(RowsOf(1)) = 1
    /\ predictions[2].verified = 0
    /\ RowsOf(2) # {}

----------------------------------------------------------------------------
(* Claims on the summary of a batch run *)

\* the predictions of the selection for which the run has stored a
\* verification and set the flag
Persisted == {i \in Ids(job.selected) : predictions[i].verified = 1 /\ RowsOf(i) # {}}

\* the sum of the overall_score of the verifications of the predictions in S
RECURSIVE ScoreSum(_)
ScoreSum(S) ==
    IF S = {} THEN Zero
    ELSE LET i == CHOOSE x \in S : TRUE
             r == CHOOSE x \in RowsOf(i) : TRUE
         IN  RAdd(r.overall_score, ScoreSum(S \ {i}))

BatchReturned == job.kind = "batch" /\ pc = "done"

C28_SumIsSelected ==
    BatchReturned => job.verified + job.pending + job.errors = Len(job.selected)

\* C28: at the end of a batch run, verified + pending + errors of the summary
\* is the number of predictions selected, 'verified' is the number of
\* verifications the run has persisted, and average_score is the mean
\* overall_score of those, 0.0 when there are none.
C28_SummaryCountsPersisted ==
    BatchReturned =>
        /\ job.verified + job.pending + job.errors = Len(job.selected)
        /\ job.verified = Cardinality(Persisted)
        /\ job.average_score =
              IF Persisted = {} THEN Zero
              ELSE RMul(ScoreSum(Persisted), R(1, Cardinality(Persisted)))

----------------------------------------------------------------------------
(* Claims on repeated batch runs *)

\* the window a batch run resolves for prediction i
BatchWindow(i) ==
    ResolveWindow(predictions[i].timeframe, PredictionDate(BatchDict(i)).text)

\* the window of prediction i has closed: a batch run would not find it pending
WindowClosed(i) ==
    /\ BatchWindow(i).ok
    /\ BatchWindow(i).end.ok
    /\ BatchWindow(i).end.ord <= now

\* C29: under repeated batch runs with a fixed limit and no processing
\* errors, every unverified prediction whose window has closed is eventually
\* selected, scored and marked verified, however many older predictions are
\* still pending.
C29_ClosedEventuallyVerified ==
    \A i \in 1..MaxPreds :
        (predictions[i].verified = 0 /\ WindowClosed(i)) ~> (predictions[i].verified = 1)

\* the same for the predictions that a run with the limit reaches in the
\* order of created_at: no older prediction is unverified with an open window
C29_FirstClosedEventuallyVerified ==
    \A i \in 1..MaxPreds :
        (/\ predictions[i].verified = 0
         /\ WindowClosed(i)
         /\ \A j \in PredIds : (Before(j, i) /\ predictions[j].verified = 0) => WindowClosed(j))
        ~> (predictions[i].verified = 1)

----------------------------------------------------------------------------
(* Claims on the two commands taken together *)

\* the date and the window verify_prediction_by_id resolves for the stored
\* prediction pid: the publish date of its video
StoredDate(pid) == PredictionDate(SingleDict(pid))
StoredWindow(pid) == ResolveWindow(predictions[pid].timeframe, StoredDate(pid).text)

\* a verify_prediction call of either command on a stored prediction
CalledOnStored == call.today # 0 /\ job.pid \in PredIds /\ StoredDate(job.pid).ok

C30_SameDate ==
    CalledOnStored => PredictionDate(call.prediction) = StoredDate(job.pid)

\* C30: the batch run and verify_prediction_by_id resolve a stored prediction
\* against the same reference date, the publish date of its video, and so
\* against the same window and with the same pending-or-resolvable decision.
C30_SameReferenceDate ==
    CalledOnStored =>
        /\ PredictionDate(call.prediction) = StoredDate(job.pid)
        /\ CallWindow = StoredWindow(job.pid)
        /\ call.market_outcome.outcome = "pending" <=>
              /\ StoredWindow(job.pid).ok
              /\ StoredWindow(job.pid).end.ok
              /\ StoredWindow(job.pid).end.ord > call.today

====
